---- MODULE Spec2Model ----
(***************************************************************************)
(* Model of the form-validation hook useFormValidation                     *)
(* (src/src/hooks/useFormValidation.js) as used by App                     *)
(* (src/unnamed/part_000), with the validators its rules call              *)
(* (src/src/utils/validators.js).                                          *)
(*                                                                         *)
(* One action is one run of an event handler up to its return or its       *)
(* await: React batches the set-state calls of one synchronous run and     *)
(* commits them together, and a handler created by the last render reads   *)
(* the state of that render.                                               *)
(*                                                                         *)
(* The module also holds the simpler variant of the hook                   *)
(* (src/unnamed/part_003), run side by side with the first one, and the    *)
(* timer helpers throttle and debounce (src/unnamed/part_001).             *)
(***************************************************************************)
EXTENDS Integers, Sequences, FiniteSets, TLC

\* The hook of useFormValidation.js: its state, the pending onSubmit calls of
\* its submit handler, and the record of the last operation.
VARIABLES values, errors, touched, isSubmitting, isDirty, inflight, last

\* The same for the hook of part_003; sLast records what its last handler was
\* handed and how often it called onSubmit.
VARIABLES sValues, sErrors, sTouched, sIsSubmitting, sInflight, sLast

\* The clock (Date.now()), the closure variables of one throttled function
\* (limit, lastRan, lastFunc) and of one debounced function (wait, timeout),
\* the last call made to the wrapper and the executions of func so far.
VARIABLES now, limit, lastRan, lastFunc, wait, timeout, lastCall, executed

simpleVars == <<sValues, sErrors, sTouched, sIsSubmitting, sInflight, sLast>>

utilVars == <<now, limit, lastRan, lastFunc, wait, timeout, lastCall, executed>>

vars ==
    <<values, errors, touched, isSubmitting, isDirty, inflight, last,
      simpleVars, utilVars>>

(***************************************************************************)
(* Bounds of the model.                                                    *)
(***************************************************************************)
\* onSubmit calls that may be pending at once.
MaxInFlight == 2
\* longest string handed to validateField in the pure-function specification.
MaxLen == 3

\* The clock runs from 1 to MaxTime; limit and wait range over 1 .. MaxDelay.
MaxTime == 6

MaxDelay == 3

(***************************************************************************)
(* JavaScript values.  A string is a sequence of one-character strings.    *)
(***************************************************************************)
Chars == {"J", "o", " "}

Str(s) == [t |-> "string", b |-> FALSE, s |-> s]

Bool(b) == [t |-> "boolean", b |-> b, s |-> <<>>]

Undefined == [t |-> "undefined", b |-> FALSE, s |-> <<>>]

Null == [t |-> "null", b |-> FALSE, s |-> <<>>]

\* A JavaScript number, held as its decimal digits.
Num(digits) == [t |-> "number", b |-> FALSE, s |-> digits]

\* JavaScript's ToBoolean, as used by !value, value && ..., value ? a : b.
truthy(v) ==
    CASE v.t = "string" -> v.s # <<>>
      [] v.t = "boolean" -> v.b
      [] v.t = "number" -> v.s # <<"0">>
      [] v.t = "object" -> TRUE
      [] OTHER -> FALSE

\* value.toString() of a string, a boolean, a number or a plain object.
toString(v) ==
    CASE v.t = "boolean" ->
             IF v.b THEN <<"t", "r", "u", "e">> ELSE <<"f", "a", "l", "s", "e">>
      [] v.t = "object" ->
             <<"[", "o", "b", "j", "e", "c", "t", " ", "O", "b", "j", "e", "c", "t", "]">>
      [] OTHER -> v.s

RECURSIVE trimStart(_)
trimStart(s) ==
    IF s # <<>> /\ Head(s) = " " THEN trimStart(Tail(s)) ELSE s

RECURSIVE trimEnd(_)
trimEnd(s) ==
    IF s # <<>> /\ s[Len(s)] = " " THEN trimEnd(SubSeq(s, 1, Len(s) - 1)) ELSE s

\* String.prototype.trim
trim(s) == trimEnd(trimStart(s))

(***************************************************************************)
(* validators.js                                                           *)
(***************************************************************************)
isRequired(value) ==
    /\ value.t # "null"
    /\ value.t # "undefined"
    /\ trim(toString(value)) # <<>>

\* value && value.toString().length >= minLength, read as a condition.
hasMinLength(value, minLength) ==
    truthy(value) /\ Len(toString(value)) >= minLength

(***************************************************************************)
(* The form of App: its fields, initial values and validation rules.       *)
(***************************************************************************)
FieldNames == {"name", "terms", "bio"}

initialValues ==
    [f \in FieldNames |-> IF f = "terms" THEN Bool(FALSE) ELSE Str(<<>>)]

NameMinLength == 2

MsgNameRequired == "El nombre es requerido"

MsgNameMinLength == "El nombre debe tener al menos 2 caracteres"

MsgTerms == "Debes aceptar los terminos y condiciones"

\* One rule function of validationRules, applied to a value.
ApplyRule(rule, value) ==
    CASE rule = "nameRequired" ->
             IF ~isRequired(value) THEN MsgNameRequired ELSE ""
      [] rule = "nameMinLength" ->
             IF ~hasMinLength(value, NameMinLength) THEN MsgNameMinLength ELSE ""
      [] rule = "termsAccepted" ->
             IF ~truthy(value) THEN MsgTerms ELSE ""

\* bio has no entry.
validationRules ==
    [f \in {"name", "terms"} |->
        IF f = "name" THEN <<"nameRequired", "nameMinLength">>
        ELSE <<"termsAccepted">>]

RuleNames == DOMAIN validationRules

(***************************************************************************)
(* JavaScript objects used as maps: a function whose domain is the set of  *)
(* own keys.                                                               *)
(***************************************************************************)
EmptyObject == [k \in {} |-> TRUE]

\* { ...prev, [name]: v }
Put(prev, name, v) ==
    [k \in DOMAIN prev \cup {name} |-> IF k = name THEN v ELSE prev[k]]

\* errors[name] read as a condition or rendered: absent counts as "".
ErrorOf(errs, name) == IF name \in DOMAIN errs THEN errs[name] ELSE ""

\* touched[name] read as a condition.
IsTouched(tch, name) == name \in DOMAIN tch /\ tch[name]

(***************************************************************************)
(* validateField: the loop over the rules of a field.  RunRules returns    *)
(* the error and the number of rules that were evaluated.                  *)
(***************************************************************************)
\* A loop that keeps the error of the last failing rule instead of returning
\* at the first one.
RECURSIVE RunRulesLastError(_, _, _)
RunRulesLastError(rules, i, value) ==
    IF i > Len(rules)
    THEN [error |-> "", ran |-> Len(rules)]
    ELSE LET error == ApplyRule(rules[i], value)
             rest == RunRulesLastError(rules, i + 1, value)
         IN  IF rest.error # "" \/ error = "" THEN rest
             ELSE [error |-> error, ran |-> Len(rules)]

RECURSIVE RunRules(_, _, _)
RunRules(rules, i, value) ==
    IF i > Len(rules)
    THEN [error |-> "", ran |-> Len(rules)]
    ELSE LET error == ApplyRule(rules[i], value)
         IN  IF error # ""
             THEN [error |-> error, ran |-> i]
             ELSE RunRules(rules, i + 1, value)

\* A lookup that falls back to the required-check for a name without rules.
ValidateRunDefaultRequired(name, value) ==
    IF name \notin DOMAIN validationRules
    THEN RunRules(<<"nameRequired">>, 1, value)
    ELSE RunRules(validationRules[name], 1, value)

ValidateRun(name, value) ==
    IF name \notin DOMAIN validationRules
    THEN [error |-> "", ran |-> 0]
    ELSE RunRules(validationRules[name], 1, value)

validateField(name, value) == ValidateRun(name, value).error

(***************************************************************************)
(* What a handler receives.  self is the argument as a value; an event     *)
(* object is an object with a target property.                             *)
(***************************************************************************)
Obj == [t |-> "object", b |-> FALSE, s |-> <<>>]

Event(type, checked, value) ==
    [self |-> Obj, hasTarget |-> TRUE,
     target |-> [type |-> type, checked |-> checked, files |-> Obj, value |-> value]]

Raw(v) ==
    [self |-> v, hasTarget |-> FALSE,
     target |-> [type |-> "", checked |-> FALSE, files |-> Obj, value |-> Undefined]]

\* typeof v === "object"
typeofObject(v) == v.t \in {"object", "null"}

\* eventOrValue && typeof eventOrValue === "object" && "target" in eventOrValue
IsEventLike(p) ==
    truthy(p.self) /\ typeofObject(p.self) /\ p.hasTarget

\* An extraction that reads target.value whatever the input's type.
extractValueTargetOnly(p) ==
    IF IsEventLike(p) THEN p.target.value ELSE p.self

\* The value handleChange stores.
extractValue(p) ==
    IF IsEventLike(p)
    THEN IF p.target.type = "checkbox" THEN Bool(p.target.checked)
         ELSE IF p.target.type = "file" THEN p.target.files
         ELSE p.target.value
    ELSE p.self

\* The values the inputs of App can hold, per field.
FieldValues(name) ==
    IF name = "terms" THEN {Bool(FALSE), Bool(TRUE)}
    ELSE IF name = "name" THEN {Str(<<>>), Str(<<"J">>), Str(<<"J", "o">>)}
    ELSE {Str(<<>>), Str(<<"J">>)}

\* What the input of a field hands to onChange, and the same values passed raw.
Payloads(name) ==
    IF name = "terms"
    THEN {Event("checkbox", c, Str(<<"o", "n">>)) : c \in BOOLEAN}
             \cup {Raw(v) : v \in FieldValues(name)}
    ELSE {Event("text", FALSE, v) : v \in FieldValues(name)}
             \cup {Raw(v) : v \in FieldValues(name)}

\* Messages an external check hands to setFieldError.
ErrorInputs == {"", "server"}

(***************************************************************************)
(* State.  inflight[i] tells whether the onSubmit call of attempt slot i    *)
(* was started and has not settled.  last records the operation that       *)
(* produced the state, what it returned and, for a submit, how often it    *)
(* called onSubmit and with which values (snap).                           *)
(***************************************************************************)
Slots == 1 .. MaxInFlight

Idle == "idle"

Pending == "pending"

NoOp ==
    [op |-> "init", name |-> "", arg |-> Undefined, ret |-> "", ran |-> 0,
     ok |-> FALSE, called |-> 0, snap |-> initialValues, handler |-> "none",
     payload |-> Raw(Undefined)]

\* A timer that is not set, and a call that was not made.
NoTimer == [set |-> FALSE, due |-> 0, args |-> ""]

NoCall == [at |-> 0, args |-> "", runs |-> 0]

\* The helpers right after throttle(func, l) and debounce(func, w).
UtilInit(l, w) ==
    /\ now = 1
    /\ limit = l
    /\ lastRan = 0
    /\ lastFunc = NoTimer
    /\ wait = w
    /\ timeout = NoTimer
    /\ lastCall = NoCall
    /\ executed = <<>>

SimpleNoOp == [called |-> 0, payload |-> Raw(Undefined)]

SimpleInit ==
    /\ sLast = SimpleNoOp
    /\ sValues = initialValues
    /\ sErrors = EmptyObject
    /\ sTouched = EmptyObject
    /\ sIsSubmitting = FALSE
    /\ sInflight = [i \in Slots |-> Idle]

FormInit ==
    /\ values = initialValues
    /\ errors = EmptyObject
    /\ touched = EmptyObject
    /\ isSubmitting = FALSE
    /\ isDirty = FALSE
    /\ inflight = [i \in Slots |-> Idle]
    /\ last = NoOp

Init == FormInit /\ SimpleInit /\ UtilInit(1, 1)

(***************************************************************************)
(* handleChange(name)(eventOrValue)                                        *)
(***************************************************************************)
\* A handler that validates the value of the last render instead of the new one.
HandleChangeStale(name, p) ==
    LET value == extractValue(p)
        run == ValidateRun(name, values[name])
    IN  /\ values' = Put(values, name, value)
        /\ touched' = Put(touched, name, TRUE)
        /\ isDirty' = TRUE
        /\ errors' = Put(errors, name, run.error)
        /\ last' = [NoOp EXCEPT !.op = "handleChange", !.name = name,
                                !.arg = value, !.ret = run.error, !.ran = run.ran]
        /\ UNCHANGED <<isSubmitting, inflight>>

\* A handler that ignores changes while an onSubmit is pending.
HandleChangeLocked(name, p) ==
    LET value == extractValue(p)
        run == ValidateRun(name, value)
    IN  /\ \A i \in DOMAIN inflight : inflight[i] = "idle"
        /\ values' = Put(values, name, value)
        /\ touched' = Put(touched, name, TRUE)
        /\ isDirty' = TRUE
        /\ errors' = Put(errors, name, run.error)
        /\ last' = [NoOp EXCEPT !.op = "handleChange", !.name = name,
                                !.arg = value, !.ret = run.error, !.ran = run.ran]
        /\ UNCHANGED <<isSubmitting, inflight>>

HandleChange(name, p) ==
    LET value == extractValue(p)
        run == ValidateRun(name, value)
    IN  /\ values' = Put(values, name, value)
        /\ touched' = Put(touched, name, TRUE)
        /\ isDirty' = TRUE
        /\ errors' = Put(errors, name, run.error)
        /\ last' = [NoOp EXCEPT !.op = "handleChange", !.name = name,
                                !.arg = value, !.ret = run.error, !.ran = run.ran]
        /\ UNCHANGED <<isSubmitting, inflight>>

(***************************************************************************)
(* handleBlur(name)()                                                      *)
(***************************************************************************)
\* A blur that marks the field touched without validating it.
HandleBlurTouchOnly(name) ==
    LET run == ValidateRun(name, values[name])
    IN  /\ touched' = Put(touched, name, TRUE)
        /\ errors' = errors
        /\ last' = [NoOp EXCEPT !.op = "handleBlur", !.name = name,
                                !.arg = values[name], !.ret = run.error,
                                !.ran = run.ran]
        /\ UNCHANGED <<values, isSubmitting, isDirty, inflight>>

\* A blur that also marks the form dirty.
HandleBlurDirty(name) ==
    LET run == ValidateRun(name, values[name])
    IN  /\ touched' = Put(touched, name, TRUE)
        /\ errors' = Put(errors, name, run.error)
        /\ isDirty' = TRUE
        /\ last' = [NoOp EXCEPT !.op = "handleBlur", !.name = name,
                                !.arg = values[name], !.ret = run.error,
                                !.ran = run.ran]
        /\ UNCHANGED <<values, isSubmitting, inflight>>

HandleBlur(name) ==
    LET run == ValidateRun(name, values[name])
    IN  /\ touched' = Put(touched, name, TRUE)
        /\ errors' = Put(errors, name, run.error)
        /\ last' = [NoOp EXCEPT !.op = "handleBlur", !.name = name,
                                !.arg = values[name], !.ret = run.error,
                                !.ran = run.ran]
        /\ UNCHANGED <<values, isSubmitting, isDirty, inflight>>

(***************************************************************************)
(* validateAll(): the pass over Object.keys(validationRules).  Returns the *)
(* two objects it builds and its boolean result.                           *)
(***************************************************************************)
\* A pass that skips the fields the user has not touched yet.
ValidateAllRunTouchedOnly(vals) ==
    LET seen == {n \in RuleNames : IsTouched(touched, n)}
        failing == {n \in seen : validateField(n, vals[n]) # ""}
    IN  [newErrors |-> [n \in failing |-> validateField(n, vals[n])],
         newTouched |-> [n \in seen |-> TRUE],
         valid |-> failing = {}]

\* A pass that merges its results into errors and touched instead of
\* replacing them.
ValidateAllRunMerge(vals) ==
    LET failing == {n \in RuleNames : validateField(n, vals[n]) # ""}
    IN  [newErrors |->
             [n \in (DOMAIN errors \ RuleNames) \cup failing |->
                 IF n \in failing THEN validateField(n, vals[n]) ELSE errors[n]],
         newTouched |-> [n \in DOMAIN touched \cup RuleNames |-> TRUE],
         valid |-> failing = {}]

ValidateAllRun(vals) ==
    LET failing == {n \in RuleNames : validateField(n, vals[n]) # ""}
    IN  [newErrors |-> [n \in failing |-> validateField(n, vals[n])],
         newTouched |-> [n \in RuleNames |-> TRUE],
         valid |-> failing = {}]

ValidateAll ==
    LET run == ValidateAllRun(values)
    IN  /\ touched' = run.newTouched
        /\ errors' = run.newErrors
        /\ last' = [NoOp EXCEPT !.op = "validateAll", !.ok = run.valid]
        /\ UNCHANGED <<values, isSubmitting, isDirty, inflight>>

(***************************************************************************)
(* handleSubmit(onSubmit)(e).  The handler runs to its await (onSubmit     *)
(* returned a promise, or any value: await suspends either way) or to its  *)
(* end (the form is invalid, or onSubmit threw before returning).  The     *)
(* rest of the handler runs when the awaited promise settles.              *)
(***************************************************************************)
FreeSlots == {i \in Slots : inflight[i] = Idle}

PendingSlots == {i \in Slots : inflight[i] = Pending}

FirstFree == CHOOSE i \in FreeSlots : \A j \in FreeSlots : i <= j

\* A handler that returns at once while an earlier onSubmit is pending.
SubmitValidGuarded ==
    LET run == ValidateAllRun(values)
    IN  /\ run.valid
        /\ FreeSlots # {}
        /\ IF PendingSlots # {}
           THEN /\ last' = [NoOp EXCEPT !.op = "handleSubmit", !.ok = FALSE,
                                        !.called = 0, !.handler = "fulfilled"]
                /\ UNCHANGED <<touched, errors, inflight, isSubmitting>>
           ELSE /\ touched' = run.newTouched
                /\ errors' = run.newErrors
                /\ inflight' = [inflight EXCEPT ![FirstFree] = Pending]
                /\ isSubmitting' = TRUE
                /\ last' = [NoOp EXCEPT !.op = "handleSubmit", !.ok = TRUE,
                                        !.called = 1, !.snap = values,
                                        !.handler = "pending"]
        /\ UNCHANGED <<values, isDirty>>

\* onSubmit(values) is called and the handler suspends at the await.  The code
\* has no guard on isSubmitting; FreeSlots # {} only keeps the number of
\* pending calls within MaxInFlight.
SubmitValid ==
    LET run == ValidateAllRun(values)
    IN  /\ run.valid
        /\ FreeSlots # {}
        /\ touched' = run.newTouched
        /\ errors' = run.newErrors
        /\ inflight' = [inflight EXCEPT ![FirstFree] = Pending]
        /\ isSubmitting' = TRUE
        /\ last' = [NoOp EXCEPT !.op = "handleSubmit", !.ok = TRUE, !.called = 1,
                                !.snap = values, !.handler = "pending"]
        /\ UNCHANGED <<values, isDirty>>

\* onSubmit(values) throws before it returns: the catch block runs at once.
SubmitValidThrows ==
    LET run == ValidateAllRun(values)
    IN  /\ run.valid
        /\ touched' = run.newTouched
        /\ errors' = run.newErrors
        /\ isSubmitting' = FALSE
        /\ last' = [NoOp EXCEPT !.op = "handleSubmit", !.ok = TRUE, !.called = 1,
                                !.snap = values, !.ret = "rejected",
                                !.handler = "fulfilled"]
        /\ UNCHANGED <<values, isDirty, inflight>>

\* A handler that calls onSubmit whatever validateAll() returned.
SubmitInvalidCallsOnSubmit ==
    LET run == ValidateAllRun(values)
    IN  /\ ~run.valid
        /\ FreeSlots # {}
        /\ touched' = run.newTouched
        /\ errors' = run.newErrors
        /\ inflight' = [inflight EXCEPT ![FirstFree] = Pending]
        /\ isSubmitting' = TRUE
        /\ last' = [NoOp EXCEPT !.op = "handleSubmit", !.ok = FALSE, !.called = 1,
                                !.snap = values, !.handler = "pending"]
        /\ UNCHANGED <<values, isDirty>>

\* validateAll() returned false: onSubmit is not called.
SubmitInvalid ==
    LET run == ValidateAllRun(values)
    IN  /\ ~run.valid
        /\ touched' = run.newTouched
        /\ errors' = run.newErrors
        /\ isSubmitting' = FALSE
        /\ last' = [NoOp EXCEPT !.op = "handleSubmit", !.ok = FALSE, !.called = 0,
                                !.handler = "fulfilled"]
        /\ UNCHANGED <<values, isDirty, inflight>>

\* A handler without the catch block: a rejection leaves it at the await.
SettleNoCatch(i, outcome) ==
    /\ inflight[i] = Pending
    /\ inflight' = [inflight EXCEPT ![i] = Idle]
    /\ isSubmitting' = IF outcome = "rejected" THEN isSubmitting ELSE FALSE
    /\ last' = [NoOp EXCEPT !.op = "settle", !.ret = outcome,
                            !.handler = IF outcome = "rejected" THEN "rejected"
                                        ELSE "fulfilled"]
    /\ UNCHANGED <<values, errors, touched, isDirty>>

\* A handler that turns a rejection into an error of the first registered field.
SettleErrorToField(i, outcome) ==
    /\ inflight[i] = Pending
    /\ inflight' = [inflight EXCEPT ![i] = Idle]
    /\ isSubmitting' = FALSE
    /\ errors' = IF outcome = "rejected" THEN Put(errors, "name", "server") ELSE errors
    /\ last' = [NoOp EXCEPT !.op = "settle", !.ret = outcome, !.handler = "fulfilled"]
    /\ UNCHANGED <<values, touched, isDirty>>

\* A handler that clears the form when its onSubmit was fulfilled.
SettleResetsForm(i, outcome) ==
    /\ inflight[i] = Pending
    /\ inflight' = [inflight EXCEPT ![i] = Idle]
    /\ isSubmitting' = FALSE
    /\ last' = [NoOp EXCEPT !.op = "settle", !.ret = outcome, !.handler = "fulfilled"]
    /\ IF outcome = "fulfilled"
       THEN /\ values' = initialValues
            /\ errors' = EmptyObject
            /\ touched' = EmptyObject
            /\ isDirty' = FALSE
       ELSE UNCHANGED <<values, errors, touched, isDirty>>

\* The promise of slot i settles and the handler resumes after its await:
\* a rejection is caught and logged, then setIsSubmitting(false).
Settle(i, outcome) ==
    /\ inflight[i] = Pending
    /\ inflight' = [inflight EXCEPT ![i] = Idle]
    /\ isSubmitting' = FALSE
    /\ last' = [NoOp EXCEPT !.op = "settle", !.ret = outcome, !.handler = "fulfilled"]
    /\ UNCHANGED <<values, errors, touched, isDirty>>

(***************************************************************************)
(* reset()                                                                 *)
(***************************************************************************)
\* A reset that forgets the submitting flag.
ResetKeepsSubmitting ==
    /\ values' = initialValues
    /\ errors' = EmptyObject
    /\ touched' = EmptyObject
    /\ isDirty' = FALSE
    /\ last' = [NoOp EXCEPT !.op = "reset"]
    /\ UNCHANGED <<isSubmitting, inflight>>

Reset ==
    /\ values' = initialValues
    /\ errors' = EmptyObject
    /\ touched' = EmptyObject
    /\ isSubmitting' = FALSE
    /\ isDirty' = FALSE
    /\ last' = [NoOp EXCEPT !.op = "reset"]
    /\ UNCHANGED inflight

(***************************************************************************)
(* setFieldValue(name, value), setFieldError(name, error)                  *)
(***************************************************************************)
\* A setFieldValue that forgets the dirty flag.
SetFieldValueNoDirty(name, value) ==
    /\ values' = Put(values, name, value)
    /\ isDirty' = isDirty
    /\ last' = [NoOp EXCEPT !.op = "setFieldValue", !.name = name, !.arg = value]
    /\ UNCHANGED <<errors, touched, isSubmitting, inflight>>

\* A setFieldValue that validates like handleChange does.
SetFieldValueValidates(name, value) ==
    /\ values' = Put(values, name, value)
    /\ isDirty' = TRUE
    /\ errors' = Put(errors, name, validateField(name, value))
    /\ last' = [NoOp EXCEPT !.op = "setFieldValue", !.name = name, !.arg = value]
    /\ UNCHANGED <<touched, isSubmitting, inflight>>

SetFieldValue(name, value) ==
    /\ values' = Put(values, name, value)
    /\ isDirty' = TRUE
    /\ last' = [NoOp EXCEPT !.op = "setFieldValue", !.name = name, !.arg = value]
    /\ UNCHANGED <<errors, touched, isSubmitting, inflight>>

\* A setFieldError that drops the messages of the other fields.
SetFieldErrorReplaces(name, error) ==
    /\ errors' = Put(EmptyObject, name, error)
    /\ touched' = Put(touched, name, TRUE)
    /\ last' = [NoOp EXCEPT !.op = "setFieldError", !.name = name, !.ret = error]
    /\ UNCHANGED <<values, isSubmitting, isDirty, inflight>>

\* A setFieldError that leaves touched alone.
SetFieldErrorNoTouch(name, error) ==
    /\ errors' = Put(errors, name, error)
    /\ last' = [NoOp EXCEPT !.op = "setFieldError", !.name = name, !.ret = error]
    /\ UNCHANGED <<values, touched, isSubmitting, isDirty, inflight>>

SetFieldError(name, error) ==
    /\ errors' = Put(errors, name, error)
    /\ touched' = Put(touched, name, TRUE)
    /\ last' = [NoOp EXCEPT !.op = "setFieldError", !.name = name, !.ret = error]
    /\ UNCHANGED <<values, isSubmitting, isDirty, inflight>>

(***************************************************************************)
(* The controller under any order of its operations.                       *)
(***************************************************************************)
Outcomes == {"fulfilled", "rejected"}

\* What a step of the hook of useFormValidation.js leaves alone.
others == <<simpleVars, utilVars>>

Next ==
    \/ \E name \in FieldNames : \E p \in Payloads(name) :
           HandleChange(name, p) /\ UNCHANGED others
    \/ \E name \in FieldNames : HandleBlur(name) /\ UNCHANGED others
    \/ ValidateAll /\ UNCHANGED others
    \/ SubmitValid /\ UNCHANGED others
    \/ SubmitValidThrows /\ UNCHANGED others
    \/ SubmitInvalid /\ UNCHANGED others
    \/ \E i \in Slots : \E outcome \in Outcomes :
           Settle(i, outcome) /\ UNCHANGED others
    \/ Reset /\ UNCHANGED others
    \/ \E name \in FieldNames : \E v \in FieldValues(name) :
           SetFieldValue(name, v) /\ UNCHANGED others
    \/ \E name \in FieldNames : \E e \in ErrorInputs :
           SetFieldError(name, e) /\ UNCHANGED others

Spec == Init /\ [][Next]_vars

\* A pending onSubmit that settles does so in the end (the claims about what
\* happens then are stated for an onSubmit that settles).
LiveSpec ==
    Spec /\ \A i \in Slots :
               WF_vars(\E outcome \in Outcomes : Settle(i, outcome) /\ UNCHANGED others)

(***************************************************************************)
(* validateField as a function of its arguments: the hook returns it, and  *)
(* a call changes no state.  SpecVF calls it on every name and value.      *)
(***************************************************************************)
RECURSIVE StringsUpTo(_)
StringsUpTo(n) ==
    IF n = 0 THEN {<<>>}
    ELSE LET shorter == StringsUpTo(n - 1)
         IN  shorter \cup {Append(s, c) : s \in shorter, c \in Chars}

AllValues ==
    {Str(s) : s \in StringsUpTo(MaxLen)}
        \cup {Bool(TRUE), Bool(FALSE), Undefined, Null, Obj}

AllNames == FieldNames \cup {"unknown"}

ValidateFieldCall(name, value) ==
    LET run == ValidateRun(name, value)
    IN  /\ last' = [NoOp EXCEPT !.op = "validateField", !.name = name,
                                !.arg = value, !.ret = validateField(name, value),
                                !.ran = run.ran]
        /\ UNCHANGED <<values, errors, touched, isSubmitting, isDirty, inflight>>

NextVF ==
    \E name \in AllNames : \E value \in AllValues :
        ValidateFieldCall(name, value) /\ UNCHANGED others

SpecVF == Init /\ [][NextVF]_vars

(***************************************************************************)
(* C1.  validateField(name, value) is "" when name has no rule list;       *)
(* otherwise it is the result of the first rule, in declared order, whose  *)
(* result is not "", and no rule after that one is evaluated; it is "" and *)
(* every rule was evaluated when no rule fails.  With a required-check as  *)
(* rule[0] and an empty value the result is rule[0]'s message, whatever    *)
(* the later rules return.                                                 *)
(***************************************************************************)
FailingRules(name, value) ==
    {i \in 1 .. Len(validationRules[name]) :
        ApplyRule(validationRules[name][i], value) # ""}

C1_FirstFailingRule ==
    last.op = "validateField" =>
        /\ last.name \notin DOMAIN validationRules
               => (last.ret = "" /\ last.ran = 0)
        /\ (last.name \in DOMAIN validationRules /\ FailingRules(last.name, last.arg) = {})
               => (last.ret = "" /\ last.ran = Len(validationRules[last.name]))
        /\ (last.name \in DOMAIN validationRules /\ FailingRules(last.name, last.arg) # {})
               => \E i \in FailingRules(last.name, last.arg) :
                     /\ \A j \in FailingRules(last.name, last.arg) : i <= j
                     /\ last.ret = ApplyRule(validationRules[last.name][i], last.arg)
                     /\ last.ran = i
        /\ (last.name = "name" /\ last.arg = Str(<<>>)) => last.ret = MsgNameRequired

\* The required-check stopped the loop although the next rule fails as well.
C1_Witness ==
    /\ last.op = "validateField"
    /\ last.name = "name"
    /\ last.arg = Str(<<>>)
    /\ last.ret = MsgNameRequired
    /\ last.ran = 1
    /\ ApplyRule("nameMinLength", last.arg) = MsgNameMinLength

(***************************************************************************)
(* C2.  After handleChange(name)(payload) with extracted value v, in the   *)
(* same step: values[name] = v, touched[name] = true, isDirty = true and   *)
(* errors[name] = validateField(name, v).  The error is that of the latest *)
(* value whatever errors[name] was before: "J" leaves the minimum-length   *)
(* message for name, "Jo" after it leaves "".                              *)
(***************************************************************************)
C2_HandleChangeAtomic ==
    last.op = "handleChange" =>
        /\ values[last.name] = last.arg
        /\ IsTouched(touched, last.name)
        /\ isDirty
        /\ last.name \in DOMAIN errors
        /\ errors[last.name] = validateField(last.name, values[last.name])
        /\ (last.name = "name" /\ values["name"] = Str(<<"J">>))
               => errors["name"] = MsgNameMinLength
        /\ (last.name = "name" /\ values["name"] = Str(<<"J", "o">>))
               => errors["name"] = ""

C2_Witness ==
    /\ last.op = "handleChange"
    /\ last.name = "name"
    /\ values["name"] = Str(<<"J">>)
    /\ ErrorOf(errors, "name") = MsgNameMinLength
    /\ IsTouched(touched, "name")
    /\ isDirty

(***************************************************************************)
(* C3.  The claim as stated: a submit started while every registered field *)
(* is valid calls onSubmit once with the current values and does not do    *)
(* what reset() does (values and isDirty stay, touched is not emptied);    *)
(* isSubmitting is true in every state in which an onSubmit is pending,    *)
(* and false after it settled.                                             *)
(***************************************************************************)
C3_ValidSubmit ==
    [][ /\ (last'.op = "handleSubmit" /\ last'.ok)
            => /\ last'.called = 1
               /\ last'.snap = values
               /\ values' = values
               /\ isDirty' = isDirty
               /\ touched' # EmptyObject
        /\ (PendingSlots' # {}) => isSubmitting'
        /\ (last'.op = "settle") => ~isSubmitting'
      ]_vars

(***************************************************************************)
(* C4.  The claim as stated: after a submit of a form with a failing       *)
(* registered field, onSubmit was not called, isSubmitting is false and    *)
(* every field of the form is touched.                                     *)
(***************************************************************************)
C4_InvalidSubmit ==
    (last.op = "handleSubmit" /\ ~last.ok) =>
        /\ last.called = 0
        /\ ~isSubmitting
        /\ \A f \in FieldNames : IsTouched(touched, f)

(***************************************************************************)
(* C5.  The claim as stated: in every reachable state isSubmitting is true *)
(* exactly when an onSubmit started by handleSubmit has not settled.       *)
(***************************************************************************)
C5_SubmittingIffPending == isSubmitting <=> (PendingSlots # {})

(***************************************************************************)
(* C6.  The claim as stated: no reachable state has two pending onSubmit   *)
(* calls.                                                                  *)
(***************************************************************************)
C6_AtMostOneInFlight == Cardinality(PendingSlots) <= 1

(***************************************************************************)
(* C7.  Every invocation of the submit handler ends with isSubmitting =    *)
(* false: at once when the form is invalid or onSubmit throws before it    *)
(* returns, and, for an onSubmit that settles, in the step that resumes    *)
(* the handler, whether the promise was fulfilled or rejected.             *)
(***************************************************************************)
C7_SubmitEndsNotSubmitting ==
    /\ [](last.handler = "fulfilled" => ~isSubmitting)
    /\ \A i \in Slots :
          (inflight[i] = Pending)
              ~> (last.op = "settle" /\ inflight[i] = Idle /\ ~isSubmitting)

C7_Witness ==
    /\ last.op = "settle"
    /\ last.ret = "rejected"
    /\ last.handler = "fulfilled"
    /\ ~isSubmitting

(***************************************************************************)
(* C8.  A rejection of onSubmit is swallowed: the handler completes        *)
(* normally, isSubmitting becomes false, and values, errors, touched and   *)
(* isDirty are what they were before the rejection arrived, as after a     *)
(* fulfilment.  An onSubmit that throws before returning leaves the errors *)
(* validateAll computed and nothing else.                                  *)
(***************************************************************************)
C8_FailureSwallowed ==
    [][ /\ (last'.op = "settle" /\ last'.ret = "rejected")
            => /\ last'.handler = "fulfilled"
               /\ ~isSubmitting'
               /\ values' = values
               /\ errors' = errors
               /\ touched' = touched
               /\ isDirty' = isDirty
        /\ (last'.op = "handleSubmit" /\ last'.ret = "rejected")
            => /\ last'.handler = "fulfilled"
               /\ ~isSubmitting'
               /\ values' = values
               /\ errors' = EmptyObject
      ]_vars

\* A rejection arrived while a field carried an error set with setFieldError.
C8_Witness ==
    /\ last.op = "settle"
    /\ last.ret = "rejected"
    /\ ~isSubmitting
    /\ ErrorOf(errors, "bio") = "server"

(***************************************************************************)
(* C9.  validateAll() leaves touched[name] = true and errors[name] (absent *)
(* read as "") equal to validateField(name, values[name]) for every name   *)
(* in validationRules, touched before or not, and returns true iff no      *)
(* registered field's rules produce a message.                             *)
(***************************************************************************)
C9_ValidateAll ==
    last.op = "validateAll" =>
        /\ \A n \in RuleNames :
              /\ IsTouched(touched, n)
              /\ ErrorOf(errors, n) = validateField(n, values[n])
        /\ last.ok <=> (\A n \in RuleNames : validateField(n, values[n]) = "")

\* The pass ran on a form nobody had changed and reported the required name.
C9_Witness ==
    /\ last.op = "validateAll"
    /\ ~last.ok
    /\ ~isDirty
    /\ IsTouched(touched, "name")
    /\ IsTouched(touched, "terms")
    /\ ErrorOf(errors, "name") = MsgNameRequired

(***************************************************************************)
(* C10.  After reset(), in whatever state it was called (a pending submit  *)
(* included): values = initialValues, errors and touched are empty         *)
(* objects, isSubmitting and isDirty are false.                            *)
(***************************************************************************)
C10_Reset ==
    last.op = "reset" =>
        /\ values = initialValues
        /\ errors = EmptyObject
        /\ touched = EmptyObject
        /\ ~isSubmitting
        /\ ~isDirty

\* reset() was called while an onSubmit was pending.
C10_Witness ==
    /\ last.op = "reset"
    /\ PendingSlots # {}
    /\ values = initialValues

(***************************************************************************)
(* getFieldState(name), in the two variants of the hook, and the three     *)
(* presentations FormInput derives from it: "error", "success", and the    *)
(* default one for any other string.                                       *)
(***************************************************************************)
\* A projection without the test of the value.
getFieldStateIgnoresValue(name) ==
    IF ~IsTouched(touched, name) THEN ""
    ELSE IF ErrorOf(errors, name) # "" THEN "error"
    ELSE "success"

\* useFormValidation.js
getFieldState(name) ==
    IF ~IsTouched(touched, name) THEN ""
    ELSE IF ErrorOf(errors, name) # "" THEN "error"
    ELSE IF truthy(values[name]) THEN "success"
    ELSE ""

\* The variant of part_003, on the same touched and errors.
getFieldStateSimple(name) ==
    IF ~IsTouched(touched, name) THEN "neutral"
    ELSE IF ErrorOf(errors, name) # "" THEN "error"
    ELSE "success"

\* FormInput's switch (state): the default branch.
IsNeutral(state) == state \notin {"error", "success"}

(***************************************************************************)
(* C11 as stated: getFieldState(name) is neutral when touched[name] is     *)
(* false, error when it is true and errors[name] is non-empty, success     *)
(* when it is true and errors[name] is empty, for every field and value.   *)
(***************************************************************************)
C11_ProjectionAsStated ==
    \A f \in FieldNames :
        /\ ~IsTouched(touched, f) => IsNeutral(getFieldState(f))
        /\ (IsTouched(touched, f) /\ ErrorOf(errors, f) # "")
               => getFieldState(f) = "error"
        /\ (IsTouched(touched, f) /\ ErrorOf(errors, f) = "")
               => getFieldState(f) = "success"

(***************************************************************************)
(* C11 amended: the variant of part_003 is the projection as stated; the   *)
(* variant of useFormValidation.js reports success for a touched field     *)
(* without error only when values[name] is truthy, and neutral ("") when   *)
(* the value is empty, false or absent.                                    *)
(***************************************************************************)
C11_Projection ==
    \A f \in FieldNames :
        /\ ~IsTouched(touched, f)
               => (getFieldState(f) = "" /\ getFieldStateSimple(f) = "neutral")
        /\ (IsTouched(touched, f) /\ ErrorOf(errors, f) # "")
               => (getFieldState(f) = "error" /\ getFieldStateSimple(f) = "error")
        /\ (IsTouched(touched, f) /\ ErrorOf(errors, f) = "")
               => /\ getFieldStateSimple(f) = "success"
                  /\ truthy(values[f]) => getFieldState(f) = "success"
                  /\ ~truthy(values[f]) => getFieldState(f) = ""

\* bio was changed to the empty string: touched, no error, no value.
C11_Witness ==
    /\ IsTouched(touched, "bio")
    /\ ErrorOf(errors, "bio") = ""
    /\ values["bio"] = Str(<<>>)
    /\ getFieldState("bio") = ""
    /\ getFieldStateSimple("bio") = "success"

\* The fields of the form that have no entry in validationRules.
Unregistered == FieldNames \ RuleNames

(***************************************************************************)
(* C12 as stated: a field with no entry in validationRules has a neutral   *)
(* getFieldState in every reachable state.                                 *)
(***************************************************************************)
C12_AlwaysNeutral == \A f \in Unregistered : IsNeutral(getFieldState(f))

(***************************************************************************)
(* C12 amended: for a field f with no entry in validationRules,            *)
(* getFieldState(f) is neutral until an operation on f itself runs: it     *)
(* leaves neutral only by handleChange(f), handleBlur(f), setFieldValue(f) *)
(* or setFieldError(f) (a touched f with a non-empty value is success), it *)
(* becomes error only by setFieldError(f), and validateAll, handleSubmit   *)
(* and reset make it neutral.                                              *)
(***************************************************************************)
C12_NeutralUntilOperatedOn ==
    [][ \A f \in Unregistered :
          /\ (IsNeutral(getFieldState(f)) /\ ~IsNeutral(getFieldState(f)'))
                 => /\ last'.name = f
                    /\ last'.op \in {"handleChange", "handleBlur",
                                     "setFieldValue", "setFieldError"}
          /\ (getFieldState(f) # "error" /\ getFieldState(f)' = "error")
                 => (last'.op = "setFieldError" /\ last'.name = f)
          /\ last'.op \in {"validateAll", "handleSubmit", "reset"}
                 => IsNeutral(getFieldState(f)')
      ]_vars

\* bio was changed to "J": touched, no error, a value.
C12_Witness ==
    /\ last.op = "handleChange"
    /\ last.name = "bio"
    /\ values["bio"] = Str(<<"J">>)
    /\ getFieldState("bio") = "success"

(***************************************************************************)
(* C13 as stated: errors[f] is empty (absent or "") in every reachable     *)
(* state for every field f absent from validationRules.                    *)
(***************************************************************************)
C13_AlwaysEmpty == \A f \in Unregistered : ErrorOf(errors, f) = ""

(***************************************************************************)
(* C13 amended: for a field f absent from validationRules, errors[f] is    *)
(* empty unless setFieldError(f, message) put a message there: no other    *)
(* operation creates or changes a non-empty errors[f]; handleChange(f),    *)
(* handleBlur(f), validateAll, handleSubmit and reset leave it empty; and  *)
(* the result of validateAll (the decision to call onSubmit) depends on    *)
(* the registered fields alone.                                            *)
(***************************************************************************)
C13_EmptyUnlessSetFieldError ==
    [][ \A f \in Unregistered :
          /\ (ErrorOf(errors', f) # "" /\ ErrorOf(errors', f) # ErrorOf(errors, f))
                 => (last'.op = "setFieldError" /\ last'.name = f)
          /\ (last'.op \in {"handleChange", "handleBlur"} /\ last'.name = f)
                 => ErrorOf(errors', f) = ""
          /\ last'.op \in {"validateAll", "handleSubmit", "reset"}
                 => ErrorOf(errors', f) = ""
          /\ last'.op \in {"validateAll", "handleSubmit"}
                 => (last'.ok <=> \A n \in RuleNames : validateField(n, values[n]) = "")
      ]_vars

\* setFieldError put a message on bio, which has no rules.
C13_Witness ==
    /\ last.op = "setFieldError"
    /\ last.name = "bio"
    /\ last.ret = "server"
    /\ ErrorOf(errors, "bio") = "server"
    /\ validateField("bio", values["bio"]) = ""

\* errors[f] is what the rules of f give on the current values[f].
Fresh(f) == ErrorOf(errors, f) = validateField(f, values[f])

(***************************************************************************)
(* C14 as stated: in every reachable state, for every field f with rules,  *)
(* errors[f] (absent = empty) equals the result of applying                *)
(* validationRules[f] to the current values[f].                            *)
(***************************************************************************)
C14_NeverStale == \A f \in RuleNames : Fresh(f)

(***************************************************************************)
(* C14 amended: for a field f with rules, errors[f] equals the result of   *)
(* validationRules[f] on the current values[f] in every state left by      *)
(* handleChange(f), handleBlur(f), validateAll or handleSubmit, and once   *)
(* equal it stays equal until setFieldValue(f), setFieldError(f) or reset  *)
(* runs; before the first validation of f, and after those three, it may   *)
(* differ.                                                                 *)
(***************************************************************************)
C14_FreshAfterValidation ==
    [][ \A f \in RuleNames :
          /\ (last'.op \in {"handleChange", "handleBlur"} /\ last'.name = f)
                 => Fresh(f)'
          /\ last'.op \in {"validateAll", "handleSubmit"} => Fresh(f)'
          /\ (Fresh(f) /\ ~Fresh(f)')
                 => \/ last'.op = "reset"
                    \/ /\ last'.op \in {"setFieldValue", "setFieldError"}
                       /\ last'.name = f
      ]_vars

\* name was validated as empty, then setFieldValue stored "Jo": the required
\* message is still there.
C14_Witness ==
    /\ last.op = "setFieldValue"
    /\ last.name = "name"
    /\ values["name"] = Str(<<"J", "o">>)
    /\ ErrorOf(errors, "name") = MsgNameRequired
    /\ validateField("name", values["name"]) = ""

(***************************************************************************)
(* C15.  handleBlur(name)() sets touched[name] = true and errors[name] =   *)
(* validateField(name, values[name]) on the field's current value, and     *)
(* leaves values and isDirty unchanged; on an empty required field         *)
(* errors[name] is the required-field message.                             *)
(***************************************************************************)
C15_HandleBlur ==
    [][ last'.op = "handleBlur" =>
          LET n == last'.name
          IN  /\ touched' = Put(touched, n, TRUE)
              /\ errors' = Put(errors, n, validateField(n, values[n]))
              /\ values' = values
              /\ isDirty' = isDirty
              /\ (n = "name" /\ ~isRequired(values[n]))
                     => errors'[n] = MsgNameRequired
      ]_vars

\* The untouched, empty name field was blurred on a form nobody changed.
C15_Witness ==
    /\ last.op = "handleBlur"
    /\ last.name = "name"
    /\ values["name"] = Str(<<>>)
    /\ IsTouched(touched, "name")
    /\ ErrorOf(errors, "name") = MsgNameRequired
    /\ ~isDirty

(***************************************************************************)
(* C16 as stated, for the step after the interaction: a field that         *)
(* handleChange(f) or handleBlur(f) has just marked touched is still       *)
(* touched after any operation other than reset.                           *)
(***************************************************************************)
C16_TouchedUntilReset ==
    [][ \A f \in FieldNames :
          ( /\ last.op \in {"handleChange", "handleBlur"}
            /\ last.name = f
            /\ IsTouched(touched, f)
            /\ last'.op # "reset" )
          => IsTouched(touched', f)
      ]_vars

(***************************************************************************)
(* C17 as stated: in every reachable state, isDirty = true implies that    *)
(* values differs from initialValues in at least one field.                *)
(***************************************************************************)
C17_DirtyImpliesDeviated ==
    isDirty => \E f \in FieldNames : values[f] # initialValues[f]

(***************************************************************************)
(* C17 amended: isDirty is true exactly when handleChange or setFieldValue *)
(* has run since construction or the last reset.  Values that differ from  *)
(* initialValues imply isDirty; the converse fails, since a change to the  *)
(* initial value, or back to it, leaves isDirty true.                      *)
(***************************************************************************)
C17_DirtyLatch ==
    /\ []((\E f \in FieldNames : values[f] # initialValues[f]) => isDirty)
    /\ [][ /\ last'.op \in {"handleChange", "setFieldValue"} => isDirty'
           /\ last'.op = "reset" => ~isDirty'
           /\ (~isDirty /\ isDirty')
                  => last'.op \in {"handleChange", "setFieldValue"}
           /\ (isDirty /\ ~isDirty') => last'.op = "reset"
         ]_vars

\* A change left every value as it was at construction; the form is dirty.
C17_Witness ==
    /\ last.op = "handleChange"
    /\ isDirty
    /\ values = initialValues

(***************************************************************************)
(* C18.  setFieldValue(name, value) sets values[name] = value and isDirty  *)
(* = true and runs no validation: errors and touched are, for every field, *)
(* what they were before the call.                                         *)
(***************************************************************************)
C18_SetFieldValue ==
    [][ last'.op = "setFieldValue" =>
          /\ values'[last'.name] = last'.arg
          /\ \A f \in FieldNames \ {last'.name} : values'[f] = values[f]
          /\ isDirty'
          /\ errors' = errors
          /\ touched' = touched
      ]_vars

\* "Jo" was stored in name while the required message of the empty name is
\* still in errors.
C18_Witness ==
    /\ last.op = "setFieldValue"
    /\ last.name = "name"
    /\ last.arg = Str(<<"J", "o">>)
    /\ values["name"] = Str(<<"J", "o">>)
    /\ ErrorOf(errors, "name") = MsgNameRequired
    /\ isDirty

(***************************************************************************)
(* C19.  setFieldError(name, message) sets errors[name] = message and      *)
(* touched[name] = true and leaves values, isDirty, isSubmitting and the   *)
(* errors and touched entries of every other field unchanged.              *)
(***************************************************************************)
C19_SetFieldError ==
    [][ last'.op = "setFieldError" =>
          LET n == last'.name
          IN  /\ n \in DOMAIN errors' /\ errors'[n] = last'.ret
              /\ n \in DOMAIN touched' /\ touched'[n] = TRUE
              /\ DOMAIN errors' \ {n} = DOMAIN errors \ {n}
              /\ \A f \in DOMAIN errors \ {n} : errors'[f] = errors[f]
              /\ DOMAIN touched' \ {n} = DOMAIN touched \ {n}
              /\ \A f \in DOMAIN touched \ {n} : touched'[f] = touched[f]
              /\ values' = values
              /\ isDirty' = isDirty
              /\ isSubmitting' = isSubmitting
      ]_vars

\* A server message was put on bio during a submit, next to name's message.
C19_Witness ==
    /\ last.op = "setFieldError"
    /\ last.name = "bio"
    /\ ErrorOf(errors, "bio") = "server"
    /\ IsTouched(touched, "bio")
    /\ ErrorOf(errors, "name") = MsgNameMinLength
    /\ isSubmitting

(***************************************************************************)
(* The extraction of handleChange as a function of its payload alone.      *)
(* SpecExtract applies it to the events of text, number, checkbox and file *)
(* inputs and to values passed directly.                                   *)
(***************************************************************************)
InputTypes == {"text", "number", "checkbox", "file"}

AllPayloads ==
    {Event(type, checked, Str(s)) :
        type \in InputTypes, checked \in BOOLEAN, s \in StringsUpTo(MaxLen)}
        \cup {Raw(v) : v \in AllValues \cup {Num(<<"0">>), Num(<<"7">>)}}

ExtractCall(p) ==
    /\ last' = [NoOp EXCEPT !.op = "extract", !.payload = p,
                            !.arg = extractValue(p)]
    /\ UNCHANGED <<values, errors, touched, isSubmitting, isDirty, inflight>>

NextExtract == \E p \in AllPayloads : ExtractCall(p) /\ UNCHANGED others

SpecExtract == Init /\ [][NextExtract]_vars

(***************************************************************************)
(* C20.  The value handleChange stores is extracted from the payload by    *)
(* role: for an object with a target it is target.checked when the target  *)
(* is a checkbox, target.files when it is a file input and target.value    *)
(* otherwise; a payload that is not such an object (string, number,        *)
(* boolean, null, undefined, an object without target) is stored as is.    *)
(***************************************************************************)
C20_ExtractByRole ==
    last.op = "extract" =>
        LET p == last.payload
        IN  IF p.self.t = "object" /\ p.hasTarget
            THEN /\ p.target.type = "checkbox"
                        => last.arg = [t |-> "boolean", b |-> p.target.checked, s |-> <<>>]
                 /\ p.target.type = "file" => last.arg = p.target.files
                 /\ p.target.type \notin {"checkbox", "file"}
                        => last.arg = p.target.value
            ELSE last.arg = p.self

\* The event of an unchecked checkbox (value "Jo"): false was extracted.
C20_Witness ==
    /\ last.op = "extract"
    /\ last.payload = Event("checkbox", FALSE, Str(<<"J", "o">>))
    /\ last.arg = Bool(FALSE)

(***************************************************************************)
(* isValid, computed on every render from errors and touched.              *)
(***************************************************************************)
isValid ==
    /\ \A key \in DOMAIN errors : errors[key] = ""
    /\ DOMAIN touched # {}

(***************************************************************************)
(* C21 as stated: whenever isValid is true, every field with rules passes  *)
(* validateField on its current value, and isValid is false when no field  *)
(* has been touched.                                                       *)
(***************************************************************************)
C21_IsValidMeansAllPass ==
    /\ isValid => \A f \in RuleNames : validateField(f, values[f]) = ""
    /\ (\A f \in FieldNames : ~IsTouched(touched, f)) => ~isValid

(***************************************************************************)
(* throttle(func, limit) and debounce(func, wait).  Time is counted in     *)
(* ticks of Date.now(); a timer set with setTimeout(f, delay) can fire at  *)
(* any time from its due time on (a negative delay counts as 0) and        *)
(* clearTimeout removes it.  A call of func takes d ticks, so a            *)
(* Date.now() read after it may be later than the one read before; func   *)
(* returns normally.                                                       *)
(* executed records each execution of func: when it started and with       *)
(* which arguments.                                                        *)
(***************************************************************************)
Args == {"a", "b"}

Delays == 1 .. MaxDelay

Durations == {0, 1}

form == <<values, errors, touched, isSubmitting, isDirty, inflight, last>>

Timer(due, args) == [set |-> TRUE, due |-> due, args |-> args]

Last(seq) == seq[Len(seq)]

Tick ==
    /\ now < MaxTime
    /\ now' = now + 1
    /\ UNCHANGED <<limit, lastRan, lastFunc, wait, timeout, lastCall, executed>>
    /\ UNCHANGED <<form, simpleVars>>

\* A timer callback that runs func without noting when: lastRan stays at
\* the time of the first execution.
ThrottleTimerKeepsLastRan(d) ==
    /\ lastFunc.set
    /\ now >= lastFunc.due
    /\ now + d <= MaxTime
    /\ lastFunc' = NoTimer
    /\ IF now - lastRan >= limit
       THEN /\ executed' = Append(executed, [at |-> now, args |-> lastFunc.args])
            /\ now' = now + d
            /\ lastRan' = lastRan
       ELSE UNCHANGED <<executed, now, lastRan>>
    /\ UNCHANGED <<limit, wait, timeout, lastCall>>
    /\ UNCHANGED <<form, simpleVars>>

\* The function throttle returns, called with args.
ThrottledCall(args, d) ==
    /\ now + d <= MaxTime
    /\ IF lastRan = 0
       THEN /\ executed' = Append(executed, [at |-> now, args |-> args])
            /\ now' = now + d
            /\ lastRan' = now + d
            /\ UNCHANGED lastFunc
       ELSE /\ d = 0
            /\ lastFunc' =
                   Timer(now + (IF limit - (now - lastRan) > 0
                                THEN limit - (now - lastRan) ELSE 0), args)
            /\ UNCHANGED <<executed, now, lastRan>>
    /\ UNCHANGED <<limit, wait, timeout, lastCall>>
    /\ UNCHANGED <<form, simpleVars>>

\* The callback of the timer lastFunc.
ThrottleTimer(d) ==
    /\ lastFunc.set
    /\ now >= lastFunc.due
    /\ now + d <= MaxTime
    /\ lastFunc' = NoTimer
    /\ IF now - lastRan >= limit
       THEN /\ executed' = Append(executed, [at |-> now, args |-> lastFunc.args])
            /\ now' = now + d
            /\ lastRan' = now + d
       ELSE /\ d = 0
            /\ UNCHANGED <<executed, now, lastRan>>
    /\ UNCHANGED <<limit, wait, timeout, lastCall>>
    /\ UNCHANGED <<form, simpleVars>>

InitThrottle == FormInit /\ SimpleInit /\ \E l \in Delays : UtilInit(l, 1)

NextThrottle ==
    \/ Tick
    \/ \E args \in Args : \E d \in Durations : ThrottledCall(args, d)
    \/ \E d \in Durations : ThrottleTimer(d)

SpecThrottle == InitThrottle /\ [][NextThrottle]_vars

DebouncedCallNoRestart(args) ==
    /\ now + wait <= MaxTime
    /\ timeout' = IF timeout.set THEN Timer(timeout.due, args)
                  ELSE Timer(now + wait, args)
    /\ lastCall' = [at |-> now, args |-> args, runs |-> 0]
    /\ UNCHANGED <<now, limit, lastRan, lastFunc, wait, executed>>
    /\ UNCHANGED <<form, simpleVars>>

\* executedFunction(...args)
DebouncedCall(args) ==
    /\ now + wait <= MaxTime
    /\ timeout' = Timer(now + wait, args)
    /\ lastCall' = [at |-> now, args |-> args, runs |-> 0]
    /\ UNCHANGED <<now, limit, lastRan, lastFunc, wait, executed>>
    /\ UNCHANGED <<form, simpleVars>>

\* later()
DebounceTimer(d) ==
    /\ timeout.set
    /\ now >= timeout.due
    /\ now + d <= MaxTime
    /\ timeout' = NoTimer
    /\ executed' = Append(executed, [at |-> now, args |-> timeout.args])
    /\ lastCall' = [lastCall EXCEPT !.runs = @ + 1]
    /\ now' = now + d
    /\ UNCHANGED <<limit, lastRan, lastFunc, wait>>
    /\ UNCHANGED <<form, simpleVars>>

InitDebounce == FormInit /\ SimpleInit /\ \E w \in Delays : UtilInit(1, w)

NextDebounce ==
    \/ Tick
    \/ \E args \in Args : DebouncedCall(args)
    \/ \E d \in Durations : DebounceTimer(d)

SpecDebounce == InitDebounce /\ [][NextDebounce]_vars

\* Time passes, and a timer that is due fires.
LiveDebounce ==
    SpecDebounce /\ WF_vars(Tick) /\ WF_vars(\E d \in Durations : DebounceTimer(d))

(***************************************************************************)
(* C23.  debounce(func, wait): func runs only when wait has passed since   *)
(* the last call of the debounced function, with the arguments of that     *)
(* call; it runs at most once per call that was not followed by another    *)
(* within wait, and in the end it has run exactly once for the last call.  *)
(***************************************************************************)
C23_Debounce ==
    /\ [][ executed' # executed =>
             /\ Len(executed') = Len(executed) + 1
             /\ Last(executed').args = lastCall.args
             /\ Last(executed').at >= lastCall.at + wait
             /\ lastCall.runs = 0
         ]_vars
    /\ [](lastCall.runs <= 1)
    /\ <>[](lastCall # NoCall => lastCall.runs = 1 /\ ~timeout.set)

\* Two calls less than wait apart, "a" then "b": one execution, with "b",
\* wait after the second call.
C23_Witness ==
    /\ wait = 2
    /\ lastCall = [at |-> 2, args |-> "b", runs |-> 1]
    /\ executed = <<[at |-> 4, args |-> "b"]>>

(***************************************************************************)
(* C24.  An invocation of the submit handler while an earlier onSubmit is  *)
(* pending is not guarded against: it runs validateAll again and, if the   *)
(* form is valid, calls onSubmit again, so that two onSubmit calls of two  *)
(* overlapping attempts are pending together (the witness).                *)
(***************************************************************************)
C24_SecondSubmitNotGuarded ==
    [][ (last'.op = "handleSubmit" /\ PendingSlots # {}) =>
          LET run == ValidateAllRun(values)
          IN  /\ touched' = run.newTouched
              /\ errors' = run.newErrors
              /\ last'.ok = run.valid
              /\ run.valid => (last'.called = 1 /\ last'.snap = values)
              /\ ~run.valid => last'.called = 0
              /\ (run.valid /\ last'.handler = "pending")
                     => /\ PendingSlots \subseteq PendingSlots'
                        /\ Cardinality(PendingSlots') = Cardinality(PendingSlots) + 1
      ]_vars

\* The second of two overlapping attempts has just called onSubmit.
C24_Witness ==
    /\ last.op = "handleSubmit"
    /\ last.called = 1
    /\ last.handler = "pending"
    /\ Cardinality(PendingSlots) = 2

(***************************************************************************)
(* C25.  There is no lock during a pending submit: while onSubmit is       *)
(* awaited, handleChange, handleBlur, setFieldValue, setFieldError and     *)
(* reset are enabled, and they change values, errors and touched as they   *)
(* do with no submit pending, leaving the pending calls pending.           *)
(***************************************************************************)
C25_NoLock ==
    /\ [](PendingSlots # {} =>
            /\ \A name \in FieldNames :
                 /\ \A p \in Payloads(name) :
                        ENABLED (HandleChange(name, p) /\ UNCHANGED others)
                 /\ ENABLED (HandleBlur(name) /\ UNCHANGED others)
                 /\ \A v \in FieldValues(name) :
                        ENABLED (SetFieldValue(name, v) /\ UNCHANGED others)
                 /\ \A e \in ErrorInputs :
                        ENABLED (SetFieldError(name, e) /\ UNCHANGED others)
            /\ ENABLED (Reset /\ UNCHANGED others))
    /\ [][ PendingSlots # {} =>
             LET n == last'.name
             IN  /\ last'.op = "handleChange" =>
                        /\ values' = Put(values, n, last'.arg)
                        /\ errors' = Put(errors, n, validateField(n, last'.arg))
                        /\ touched' = Put(touched, n, TRUE)
                        /\ inflight' = inflight
                 /\ last'.op = "handleBlur" =>
                        /\ values' = values
                        /\ errors' = Put(errors, n, validateField(n, values[n]))
                        /\ touched' = Put(touched, n, TRUE)
                        /\ inflight' = inflight
                 /\ last'.op = "setFieldValue" =>
                        /\ values' = Put(values, n, last'.arg)
                        /\ errors' = errors
                        /\ touched' = touched
                        /\ inflight' = inflight
                 /\ last'.op = "setFieldError" =>
                        /\ values' = values
                        /\ errors' = Put(errors, n, last'.ret)
                        /\ touched' = Put(touched, n, TRUE)
                        /\ inflight' = inflight
                 /\ last'.op = "reset" =>
                        /\ values' = initialValues
                        /\ errors' = EmptyObject
                        /\ touched' = EmptyObject
                        /\ inflight' = inflight
         ]_vars

\* name was shortened to "J" while the onSubmit called with "Jo" is pending.
C25_Witness ==
    /\ PendingSlots # {}
    /\ last.op = "handleChange"
    /\ last.name = "name"
    /\ values["name"] = Str(<<"J">>)
    /\ ErrorOf(errors, "name") = MsgNameMinLength

(***************************************************************************)
(* The hook of part_003: the same handlers over its own state.  Its        *)
(* handleChange reads e.target.value whatever the input, and it has no     *)
(* isDirty, setFieldValue or setFieldError.                                *)
(***************************************************************************)
SimpleHandleChange(name, p) ==
    LET value == p.target.value
    IN  /\ sValues' = Put(sValues, name, value)
        /\ sTouched' = Put(sTouched, name, TRUE)
        /\ sErrors' = Put(sErrors, name, validateField(name, value))
        /\ sLast' = [SimpleNoOp EXCEPT !.payload = p]
        /\ UNCHANGED <<sIsSubmitting, sInflight>>

\* A part_003 blur that marks the field touched without validating it.
SimpleHandleBlurTouchOnly(name) ==
    /\ sTouched' = Put(sTouched, name, TRUE)
    /\ sLast' = SimpleNoOp
    /\ UNCHANGED <<sValues, sErrors, sIsSubmitting, sInflight>>

SimpleHandleBlur(name) ==
    /\ sTouched' = Put(sTouched, name, TRUE)
    /\ sErrors' = Put(sErrors, name, validateField(name, sValues[name]))
    /\ sLast' = SimpleNoOp
    /\ UNCHANGED <<sValues, sIsSubmitting, sInflight>>

SimpleFreeSlots == {i \in Slots : sInflight[i] = Idle}

SimpleFirstFree == CHOOSE i \in SimpleFreeSlots : \A j \in SimpleFreeSlots : i <= j

SimpleSubmitValid ==
    LET run == ValidateAllRun(sValues)
    IN  /\ run.valid
        /\ SimpleFreeSlots # {}
        /\ sTouched' = run.newTouched
        /\ sErrors' = run.newErrors
        /\ sInflight' = [sInflight EXCEPT ![SimpleFirstFree] = Pending]
        /\ sIsSubmitting' = TRUE
        /\ sLast' = [SimpleNoOp EXCEPT !.called = 1]
        /\ UNCHANGED sValues

SimpleSubmitValidThrows ==
    LET run == ValidateAllRun(sValues)
    IN  /\ run.valid
        /\ sTouched' = run.newTouched
        /\ sErrors' = run.newErrors
        /\ sIsSubmitting' = FALSE
        /\ sLast' = [SimpleNoOp EXCEPT !.called = 1]
        /\ UNCHANGED <<sValues, sInflight>>

SimpleSubmitInvalid ==
    LET run == ValidateAllRun(sValues)
    IN  /\ ~run.valid
        /\ sTouched' = run.newTouched
        /\ sErrors' = run.newErrors
        /\ sIsSubmitting' = FALSE
        /\ sLast' = SimpleNoOp
        /\ UNCHANGED <<sValues, sInflight>>

SimpleSettle(i) ==
    /\ sInflight[i] = Pending
    /\ sInflight' = [sInflight EXCEPT ![i] = Idle]
    /\ sIsSubmitting' = FALSE
    /\ sLast' = SimpleNoOp
    /\ UNCHANGED <<sValues, sErrors, sTouched>>

SimpleReset ==
    /\ sValues' = initialValues
    /\ sErrors' = EmptyObject
    /\ sTouched' = EmptyObject
    /\ sIsSubmitting' = FALSE
    /\ sLast' = SimpleNoOp
    /\ UNCHANGED sInflight

(***************************************************************************)
(* The two hooks side by side: the inputs of App hand the same events to   *)
(* the handlers of both, both submit handlers get the same onSubmit (it    *)
(* throws for both or for neither, and the promises held in slot i settle  *)
(* together), and both are reset together.                                 *)
(***************************************************************************)
\* The type of the input App renders for a field.
InputType(name) == IF name = "terms" THEN "checkbox" ELSE "text"

EventPayloads(name) ==
    IF InputType(name) = "checkbox"
    THEN {Event("checkbox", c, Str(<<"o", "n">>)) : c \in BOOLEAN}
    ELSE {Event("text", FALSE, v) : v \in FieldValues(name)}

NextBoth ==
    \/ \E name \in FieldNames : \E p \in EventPayloads(name) :
           HandleChange(name, p) /\ SimpleHandleChange(name, p) /\ UNCHANGED utilVars
    \/ \E name \in FieldNames :
           HandleBlur(name) /\ SimpleHandleBlur(name) /\ UNCHANGED utilVars
    \/ SubmitValid /\ SimpleSubmitValid /\ UNCHANGED utilVars
    \/ SubmitValidThrows /\ SimpleSubmitValidThrows /\ UNCHANGED utilVars
    \/ SubmitInvalid /\ SimpleSubmitInvalid /\ UNCHANGED utilVars
    \/ SubmitInvalid /\ SimpleSubmitValid /\ UNCHANGED utilVars
    \/ SubmitInvalid /\ SimpleSubmitValidThrows /\ UNCHANGED utilVars
    \/ \E i \in Slots : \E outcome \in Outcomes :
           Settle(i, outcome) /\ SimpleSettle(i) /\ UNCHANGED utilVars
    \/ \E i \in Slots :
           /\ inflight[i] = Idle
           /\ SimpleSettle(i)
           /\ last' = [NoOp EXCEPT !.op = "settle"]
           /\ UNCHANGED <<values, errors, touched, isSubmitting, isDirty, inflight>>
           /\ UNCHANGED utilVars
    \/ Reset /\ SimpleReset /\ UNCHANGED utilVars

SpecBoth == Init /\ [][NextBoth]_vars

\* The part of an object that belongs to the fields in S.
Restrict(obj, S) == [k \in DOMAIN obj \cap S |-> obj[k]]

\* The fields whose input hands both variants the same value.
ValueFields == {f \in FieldNames : InputType(f) \notin {"checkbox", "file"}}

\* What the two getFieldState may return for a field with the same state.
SameFieldState(f) ==
    \/ getFieldState(f) = getFieldStateSimple(f)
    \/ getFieldState(f) = "" /\ getFieldStateSimple(f) = "neutral"
    \/ /\ getFieldState(f) = "" /\ getFieldStateSimple(f) = "success"
       /\ IsTouched(touched, f)
       /\ ErrorOf(errors, f) = ""
       /\ ~truthy(values[f])

(***************************************************************************)
(* C26 as stated: run side by side on the same handleChange events,        *)
(* handleBlur, handleSubmit and reset, the two variants keep identical     *)
(* values, errors, touched and isSubmitting, call onSubmit at the same     *)
(* points, and their getFieldState differs only for a touched field with   *)
(* no error and an empty value.                                            *)
(***************************************************************************)
C26_VariantsEquivalent ==
    /\ values = sValues
    /\ errors = sErrors
    /\ touched = sTouched
    /\ isSubmitting = sIsSubmitting
    /\ inflight = sInflight
    /\ last.called = sLast.called
    /\ \A f \in FieldNames : SameFieldState(f)

(***************************************************************************)
(* C26 amended: the variants agree except for what handleChange stores for *)
(* a checkbox (or file) input.  Side by side they keep identical touched,  *)
(* and identical values and errors for every field whose input is neither; *)
(* for a checkbox the first variant stores target.checked and the second   *)
(* target.value, so that field's value and error, and with them the        *)
(* outcome of validateAll, can differ.  A submit on which validateAll      *)
(* agrees calls onSubmit in both or in neither and, like every other step, *)
(* keeps isSubmitting and the pending calls identical if they were.  For a *)
(* field with identical value and error getFieldState differs only when   *)
(* it is touched, without error and empty.                                 *)
(***************************************************************************)
C26_EquivalentUpToRole ==
    /\ [](/\ touched = sTouched
          /\ Restrict(values, ValueFields) = Restrict(sValues, ValueFields)
          /\ Restrict(errors, ValueFields) = Restrict(sErrors, ValueFields)
          /\ \A f \in ValueFields : SameFieldState(f))
    /\ [][ (last'.op = "handleChange" /\ sLast'.payload.target.type = "checkbox") =>
             /\ values'[last'.name] = Bool(sLast'.payload.target.checked)
             /\ sValues'[last'.name] = sLast'.payload.target.value
         ]_vars
    /\ [][ ( /\ isSubmitting = sIsSubmitting
             /\ inflight = sInflight
             /\ last'.op = "handleSubmit"
                    => ValidateAllRun(values).valid = ValidateAllRun(sValues).valid )
           => /\ isSubmitting' = sIsSubmitting'
              /\ inflight' = sInflight'
              /\ last'.called = sLast'.called
         ]_vars

\* With "Jo" typed and the box ticked both variants have called onSubmit;
\* terms is true in one and "on" in the other.
C26_Witness ==
    /\ last.op = "handleSubmit"
    /\ last.called = 1
    /\ sLast.called = 1
    /\ values["terms"] = Bool(TRUE)
    /\ sValues["terms"] = Str(<<"o", "n">>)
    /\ values["name"] = sValues["name"]
    /\ isSubmitting /\ sIsSubmitting

(***************************************************************************)
(* C27.  Every call of onSubmit made by handleSubmit receives a values     *)
(* mapping v with validateField(f, v[f]) empty for every field f of        *)
(* validationRules, and v is the values the handler's validateAll checked, *)
(* whatever was interleaved before.                                        *)
(***************************************************************************)
C27_SubmittedSnapshotValid ==
    [][ (last'.op = "handleSubmit" /\ last'.called = 1) =>
          /\ last'.snap = values
          /\ errors' = ValidateAllRun(values).newErrors
          /\ \A f \in RuleNames : validateField(f, last'.snap[f]) = ""
          /\ last'.ok
      ]_vars

\* onSubmit got name "Jo" and terms true while another call is pending.
C27_Witness ==
    /\ last.op = "handleSubmit"
    /\ last.called = 1
    /\ last.snap["name"] = Str(<<"J", "o">>)
    /\ last.snap["terms"] = Bool(TRUE)
    /\ errors = EmptyObject
    /\ Cardinality(PendingSlots) = 2

(***************************************************************************)
(* C28.  In every reachable state a field whose errors entry is non-empty  *)
(* has touched = true, so getFieldState reports error, never neutral, for  *)
(* a field that carries an error message.                                  *)
(***************************************************************************)
C28_ErrorImpliesTouched ==
    \A f \in FieldNames :
        ErrorOf(errors, f) # ""
            => /\ IsTouched(touched, f)
               /\ getFieldState(f) = "error"
               /\ getFieldStateSimple(f) = "error"

\* An external check put a message on the untouched bio field.
C28_Witness ==
    /\ last.op = "setFieldError"
    /\ last.name = "bio"
    /\ ~last.ok
    /\ ErrorOf(errors, "bio") = "server"
    /\ DOMAIN touched = {"bio"}
    /\ getFieldState("bio") = "error"

C30_SettleChangesOnlyIsSubmitting ==
    [][ last'.op = "settle" =>
          /\ last'.ret \in Outcomes
          /\ <<values, errors, touched, isDirty>>' = <<values, errors, touched, isDirty>>
          /\ ~isSubmitting'
          /\ \E i \in PendingSlots : PendingSlots' = PendingSlots \ {i}
      ]_vars

\* The form was reset and "J" typed into bio during the wait; the onSubmit
\* was then fulfilled.
C30_Witness ==
    /\ last.op = "settle"
    /\ last.ret = "fulfilled"
    /\ DOMAIN touched = {"bio"}
    /\ values = [initialValues EXCEPT !["bio"] = Str(<<"J">>)]
    /\ isDirty
    /\ ~isSubmitting

====
